---- MODULE Spec2Model ----
(***************************************************************************)
(* Endpoints of the member API: Flask route -> service -> datastore.  The   *)
(* list endpoints of the Path and Resource domains go through              *)
(* execute_infinite_scroll_query.                                          *)
(*                                                                         *)
(* Text (names, cursors, raw query values) is a sequence of one-character  *)
(* strings; field names, sort orders and exception kinds are atoms.  An    *)
(* optional value is <<>> (Python None) or <<v>>.                          *)
(***************************************************************************)
EXTENDS Integers, Sequences, FiniteSets, TLC

\* db: the documents of each collection; request, calls, response, reply,
\* trace: the last request, the service calls its route made, what the route
\* function handed back, the HTTP reply, and the operations performed in
\* order; scroll: the client's view of the scroll in progress; available:
\* whether the datastore can be reached; authorized: whether the client's
\* token is accepted; history: what the scroll's requests read and which
\* documents no writer has touched since its first page; previous: a request
\* the client keeps with its response, to compare a later one with; process:
\* the server process, with the signal handlers it is running
VARIABLES db, request, calls, response, reply, trace, scroll, available,
          authorized, history, previous, process

vars ==
  <<db, request, calls, response, reply, trace, scroll, available, authorized, history,
    previous, process>>

(***************************************************************************)
(* Bounds                                                                  *)
(***************************************************************************)
\* documents in a collection
MaxDocs == 3
\* writes by other clients
MaxWrites == 2
\* pages a client follows in one scroll
MaxPages == MaxDocs + 1
\* signals delivered to the server, each of which may interrupt the handler
\* of the one before
MaxSignals == 2

(***************************************************************************)
(* Characters and text                                                     *)
(***************************************************************************)
None == <<>>
Some(v) == <<v>>

\* the characters used, in code-point order
Alphabet ==
  << " ", "+", "-", ".",
     "0", "1", "2", "3", "4", "5", "6", "7", "8", "9",
     "A", "B", "C", "D", "E", "F", "G", "H", "I", "J", "K", "L", "M",
     "N", "O", "P", "Q", "R", "S", "T", "U", "V", "W", "X", "Y", "Z",
     "_",
     "a", "b", "c", "d", "e", "f", "g", "h", "i", "j", "k", "l", "m",
     "n", "o", "p", "q", "r", "s", "t", "u", "v", "w", "x", "y", "z" >>

Chars == {Alphabet[i] : i \in 1..Len(Alphabet)}

Ord == [c \in Chars |-> CHOOSE i \in 1..Len(Alphabet) : Alphabet[i] = c]

Digits == {Alphabet[i] : i \in 5..14}
UpperCase == {Alphabet[i] : i \in 15..40}

\* str.lower() on one character
Lower(c) == IF c \in UpperCase THEN Alphabet[Ord[c] + 27] ELSE c

\* binary (code-point) comparison of two texts, a proper prefix first
StrLess(a, b) ==
  LET differ == {i \in 1..(IF Len(a) < Len(b) THEN Len(a) ELSE Len(b)) : a[i] # b[i]}
  IN IF differ = {} THEN Len(a) < Len(b)
     ELSE LET k == CHOOSE i \in differ : \A j \in differ : i <= j
          IN Ord[a[k]] < Ord[b[k]]

(***************************************************************************)
(* bson.ObjectId: 12 bytes; str() is 24 lower-case hex digits              *)
(***************************************************************************)
ObjectIdBytes == 12

HexDigits == << "0", "1", "2", "3", "4", "5", "6", "7",
                "8", "9", "a", "b", "c", "d", "e", "f" >>

HexChars == {HexDigits[i] : i \in 1..16} \cup {"A", "B", "C", "D", "E", "F"}

HexVal == [c \in HexChars |-> (CHOOSE i \in 1..16 : HexDigits[i] = Lower(c)) - 1]

\* ObjectId.is_valid(text)
ObjectIdIsValid(s) ==
  /\ Len(s) = 2 * ObjectIdBytes
  /\ \A i \in 1..Len(s) : s[i] \in HexChars

\* ObjectId(text), for valid text
ObjectId(s) ==
  [i \in 1..ObjectIdBytes |-> 16 * HexVal[s[2 * i - 1]] + HexVal[s[2 * i]]]

\* str(ObjectId)
ObjectIdStr(oid) ==
  [i \in 1..(2 * ObjectIdBytes) |->
     IF i % 2 = 1 THEN HexDigits[(oid[(i + 1) \div 2] \div 16) + 1]
                  ELSE HexDigits[(oid[i \div 2] % 16) + 1]]

\* byte-wise comparison of two ObjectIds
ObjectIdLess(a, b) ==
  LET differ == {i \in 1..ObjectIdBytes : a[i] # b[i]}
  IN /\ differ # {}
     /\ LET k == CHOOSE i \in differ : \A j \in differ : i <= j
        IN a[k] < b[k]

(***************************************************************************)
(* Python int(text) as used by request.args.get(key, default, type=int)    *)
(***************************************************************************)
\* text.strip()
Strip(s) ==
  LET keep == {i \in 1..Len(s) : s[i] # " "}
  IN IF keep = {} THEN <<>>
     ELSE SubSeq(s, CHOOSE i \in keep : \A j \in keep : i <= j,
                    CHOOSE i \in keep : \A j \in keep : j <= i)

\* the digits of a literal, sign removed
Unsigned(s) ==
  LET t == Strip(s)
  IN IF t # <<>> /\ t[1] \in {"+", "-"} THEN Tail(t) ELSE t

\* int(text) does not raise ValueError
IsIntLiteral(s) ==
  LET body == Unsigned(s)
  IN /\ body # <<>>
     /\ \A i \in 1..Len(body) :
          \/ body[i] \in Digits
          \/ /\ body[i] = "_"
             /\ 1 < i /\ i < Len(body)
             /\ body[i - 1] \in Digits /\ body[i + 1] \in Digits

RECURSIVE DigitsValue(_)
DigitsValue(body) ==
  IF body = <<>> THEN 0
  ELSE LET init == SubSeq(body, 1, Len(body) - 1)
           last == body[Len(body)]
       IN IF last = "_" THEN DigitsValue(init)
          ELSE 10 * DigitsValue(init) + (Ord[last] - Ord["0"])

\* int(text), for a literal
ParseInt(s) ==
  LET t == Strip(s)
  IN IF t[1] = "-" THEN 0 - DigitsValue(Unsigned(s)) ELSE DigitsValue(Unsigned(s))

(***************************************************************************)
(* Outcomes of a call: a returned value or a raised exception              *)
(***************************************************************************)
Return(v) == [kind |-> "return", value |-> v]
HTTPBadRequest(msg) == [kind |-> "HTTPBadRequest", message |-> msg]
HTTPInternalServerError(msg) == [kind |-> "HTTPInternalServerError", message |-> msg]
HTTPNotFound(msg) == [kind |-> "HTTPNotFound", message |-> msg]
HTTPForbidden(msg) == [kind |-> "HTTPForbidden", message |-> msg]
HTTPUnauthorized(msg) == [kind |-> "HTTPUnauthorized", message |-> msg]
\* an exception of the datastore driver
PyMongoError(msg) == [kind |-> "PyMongoError", message |-> msg]

\* the cause a driver exception carries when the datastore cannot be reached
\* any other exception
RuntimeError(msg) == [kind |-> "RuntimeError", message |-> msg]

CONNECTION_REFUSED == "localhost:27017: [Errno 111] Connection refused"

(***************************************************************************)
(* api_utils.mongo_utils.execute_infinite_scroll_query                      *)
(***************************************************************************)
MIN_LIMIT == 1
MAX_LIMIT == 100

Contains(seq, x) == \E i \in 1..Len(seq) : seq[i] = x

\* the parameter rules, in order; the first failure wins
validate_params(after_id, limit, sort_by, order, allowed_sort_fields) ==
  IF limit < MIN_LIMIT THEN HTTPBadRequest(<<"limit must be >= 1">>)
  ELSE IF limit > MAX_LIMIT THEN HTTPBadRequest(<<"limit must be <= 100">>)
  ELSE IF ~Contains(allowed_sort_fields, sort_by)
    THEN HTTPBadRequest(<<"sort_by must be one of">> \o allowed_sort_fields)
  ELSE IF order \notin {"asc", "desc"}
    THEN HTTPBadRequest(<<"order must be 'asc' or 'desc'">>)
  ELSE IF after_id # None /\ ~ObjectIdIsValid(after_id[1])
    THEN HTTPBadRequest(<<"after_id must be a valid MongoDB ObjectId">>)
  ELSE Return(TRUE)

\* {'$regex': pattern, '$options': 'i'}: unanchored, case-insensitive;
\* a pattern character is a literal or the wildcard '.'
CharMatch(p, c) == p = "." \/ Lower(p) = Lower(c)

RegexSearch(pattern, text) ==
  \E k \in 1..(Len(text) - Len(pattern) + 1) :
    \A i \in 1..Len(pattern) : CharMatch(pattern[i], text[k + i - 1])

\* the name part of the filter
NameFilter(doc, name) == name = None \/ RegexSearch(name[1], doc.name)

\* the order of the scan: sort field in the requested direction, then _id ascending
Before(d, e, sort_by, order) ==
  \/ IF order = "asc" THEN StrLess(d[sort_by], e[sort_by])
                      ELSE StrLess(e[sort_by], d[sort_by])
  \/ d[sort_by] = e[sort_by] /\ ObjectIdLess(d._id, e._id)

\* the document a cursor names, if the collection still holds it
ResumePoint(collection, after_id) ==
  IF after_id = None THEN {}
  ELSE LET oid == ObjectId(after_id[1])
       IN {d \in collection : d._id = oid}

\* the filter: name match and keyset continuation
build_query(collection, name, after_id, sort_by, order) ==
  LET resume == ResumePoint(collection, after_id)
  IN {d \in collection :
        /\ NameFilter(d, name)
        /\ \A r \in resume : Before(r, d, sort_by, order)}

RECURSIVE SortDocs(_, _, _)
SortDocs(S, sort_by, order) ==
  IF S = {} THEN <<>>
  ELSE LET first == CHOOSE d \in S : \A e \in S \ {d} : Before(d, e, sort_by, order)
       IN <<first>> \o SortDocs(S \ {first}, sort_by, order)

\* cursor.limit(n)
Take(seq, n) == SubSeq(seq, 1, IF Len(seq) < n THEN Len(seq) ELSE n)

\* a document as returned: _id as text
ToItem(doc) == [doc EXCEPT !._id = ObjectIdStr(doc._id)]

\* fetch limit + 1, trim, derive has_more and next_cursor
assemble_result(fetched, limit) ==
  LET has_more == Len(fetched) > limit
      docs == Take(fetched, limit)
      items == [i \in 1..Len(docs) |-> ToItem(docs[i])]
  IN [items |-> items,
      limit |-> limit,
      has_more |-> has_more,
      next_cursor |-> IF has_more THEN Some(items[Len(items)]._id) ELSE None]

\* a collection handle: the documents it holds and whether a query on it
\* reaches the datastore
Collection_handle(documents, reachable) ==
  [documents |-> documents, reachable |-> reachable]

\* validate, then query; a query on an unreachable collection raises
execute_infinite_scroll_query(collection, name, after_id, limit, sort_by, order, allowed) ==
  LET checked == validate_params(after_id, limit, sort_by, order, allowed)
  IN IF checked.kind # "return" THEN checked
     ELSE IF ~collection.reachable THEN PyMongoError(<<CONNECTION_REFUSED>>)
     ELSE Return(assemble_result(
            Take(SortDocs(build_query(collection.documents, name, after_id, sort_by, order),
                          sort_by, order),
                 limit + 1),
            limit))

\* the operations the engine performs on the collection, in order: none when
\* a parameter is rejected, else the lookup of the cursor's document and the
\* page query; the first one that raises is the last
execute_infinite_scroll_query_operations(collection, after_id, limit, sort_by, order, allowed) ==
  IF validate_params(after_id, limit, sort_by, order, allowed).kind # "return" THEN <<>>
  ELSE IF after_id = None THEN <<"find">>
  ELSE IF ~collection.reachable THEN <<"find_one">>
  ELSE <<"find_one", "find">>

(***************************************************************************)
(* Services                                                                *)
(***************************************************************************)
\* config.PATH_COLLECTION_NAME, config.RESOURCE_COLLECTION_NAME
PATH_COLLECTION_NAME == "Path"
RESOURCE_COLLECTION_NAME == "Resource"

\* variant: 'description' left out of the allow-list
PathService_ALLOWED_SORT_FIELDS_name_only == <<"name">>

PathService_ALLOWED_SORT_FIELDS == <<"name", "description">>

\* the placeholder permission check: returns for every token and operation;
\* the services run it first, inside the try block
PathService_check_permission(token, operation) == Return(None)

ResourceService_check_permission(token, operation) == Return(None)

\* str.lower() on a sort order
OrderLower(order) ==
  CASE order = "ASC" -> "asc" [] order = "DESC" -> "desc" [] OTHER -> order

\* variant: HTTPForbidden is re-raised as HTTPBadRequest is
PathService_get_paths_handlers_forbidden_passes(outcome) ==
  IF outcome.kind = "return" THEN outcome
  ELSE IF outcome.kind \in {"HTTPBadRequest", "HTTPForbidden"} THEN outcome
  ELSE HTTPInternalServerError(<<"Failed to retrieve paths">>)

\* the except clauses of get_paths, applied to what its try block ended in:
\* 'except HTTPBadRequest: raise', then 'except Exception' with the generic
\* message
PathService_get_paths_handlers(outcome) ==
  IF outcome.kind = "return" THEN outcome
  ELSE IF outcome.kind = "HTTPBadRequest" THEN outcome
  ELSE HTTPInternalServerError(<<"Failed to retrieve paths">>)

ResourceService_get_resources_handlers(outcome) ==
  IF outcome.kind = "return" THEN outcome
  ELSE IF outcome.kind = "HTTPBadRequest" THEN outcome
  ELSE HTTPInternalServerError(<<"Failed to retrieve resources">>)

\* the statements of the try block that precede the query, in order
TRY_BLOCK ==
  <<"_check_permission", "MongoIO.get_instance", "Config.get_instance", "get_collection">>

\* variant: order is not forwarded, the engine's default applies
PathService_get_paths_default_order(mongo, token, name, after_id, limit, sort_by, order) ==
  LET permitted == PathService_check_permission(token, "read")
      result == execute_infinite_scroll_query(
                  mongo[PATH_COLLECTION_NAME], name, after_id, limit, sort_by, "asc",
                  PathService_ALLOWED_SORT_FIELDS)
      outcome == IF permitted.kind # "return" THEN permitted ELSE result
  IN IF outcome.kind = "return" THEN outcome
     ELSE IF outcome.kind = "HTTPBadRequest" THEN outcome
     ELSE HTTPInternalServerError(<<"Failed to retrieve paths">>)

\* variant: name is not forwarded
PathService_get_paths_no_name(mongo, token, name, after_id, limit, sort_by, order) ==
  LET permitted == PathService_check_permission(token, "read")
      result == execute_infinite_scroll_query(
                  mongo[PATH_COLLECTION_NAME], None, after_id, limit, sort_by, order,
                  PathService_ALLOWED_SORT_FIELDS)
      outcome == IF permitted.kind # "return" THEN permitted ELSE result
  IN IF outcome.kind = "return" THEN outcome
     ELSE IF outcome.kind = "HTTPBadRequest" THEN outcome
     ELSE HTTPInternalServerError(<<"Failed to retrieve paths">>)

\* variant: limit is clamped into the accepted range before the call
PathService_get_paths_clamped_limit(mongo, token, name, after_id, limit, sort_by, order) ==
  LET permitted == PathService_check_permission(token, "read")
      result == execute_infinite_scroll_query(
                  mongo[PATH_COLLECTION_NAME], name, after_id,
                  IF limit < 1 THEN 1 ELSE IF limit > 100 THEN 100 ELSE limit,
                  sort_by, order,
                  PathService_ALLOWED_SORT_FIELDS)
      outcome == IF permitted.kind # "return" THEN permitted ELSE result
  IN IF outcome.kind = "return" THEN outcome
     ELSE IF outcome.kind = "HTTPBadRequest" THEN outcome
     ELSE HTTPInternalServerError(<<"Failed to retrieve paths">>)

\* variant: order is lower-cased before the call
PathService_get_paths_lowercase_order(mongo, token, name, after_id, limit, sort_by, order) ==
  LET permitted == PathService_check_permission(token, "read")
      result == execute_infinite_scroll_query(
                  mongo[PATH_COLLECTION_NAME], name, after_id, limit, sort_by, OrderLower(order),
                  PathService_ALLOWED_SORT_FIELDS)
      outcome == IF permitted.kind # "return" THEN permitted ELSE result
  IN IF outcome.kind = "return" THEN outcome
     ELSE IF outcome.kind = "HTTPBadRequest" THEN outcome
     ELSE HTTPInternalServerError(<<"Failed to retrieve paths">>)

\* variant: HTTPBadRequest is raised again with the generic message
PathService_get_paths_generic_bad_request(mongo, token, name, after_id, limit, sort_by, order) ==
  LET permitted == PathService_check_permission(token, "read")
      result == execute_infinite_scroll_query(
                  mongo[PATH_COLLECTION_NAME], name, after_id, limit, sort_by, order,
                  PathService_ALLOWED_SORT_FIELDS)
      outcome == IF permitted.kind # "return" THEN permitted ELSE result
  IN IF outcome.kind = "return" THEN outcome
     ELSE IF outcome.kind = "HTTPBadRequest"
       THEN HTTPBadRequest(<<"Failed to retrieve paths">>)
     ELSE HTTPInternalServerError(<<"Failed to retrieve paths">>)

\* variant: the cause is appended to the generic message
PathService_get_paths_echo_cause(mongo, token, name, after_id, limit, sort_by, order) ==
  LET permitted == PathService_check_permission(token, "read")
      result == execute_infinite_scroll_query(
                  mongo[PATH_COLLECTION_NAME], name, after_id, limit, sort_by, order,
                  PathService_ALLOWED_SORT_FIELDS)
      outcome == IF permitted.kind # "return" THEN permitted ELSE result
  IN IF outcome.kind = "return" THEN outcome
     ELSE IF outcome.kind = "HTTPBadRequest" THEN outcome
     ELSE HTTPInternalServerError(<<"Failed to retrieve paths">> \o outcome.message)

\* variant: sort_by is not forwarded, the engine sorts by 'name'
PathService_get_paths_sorted_by_name(mongo, token, name, after_id, limit, sort_by, order) ==
  LET permitted == PathService_check_permission(token, "read")
      result == execute_infinite_scroll_query(
                  mongo[PATH_COLLECTION_NAME], name, after_id, limit, "name", order,
                  PathService_ALLOWED_SORT_FIELDS)
      outcome == IF permitted.kind # "return" THEN permitted ELSE result
  IN IF outcome.kind = "return" THEN outcome
     ELSE IF outcome.kind = "HTTPBadRequest" THEN outcome
     ELSE HTTPInternalServerError(<<"Failed to retrieve paths">>)

\* variant: the cursor is dropped, every page starts at the first document
PathService_get_paths_from_the_start(mongo, token, name, after_id, limit, sort_by, order) ==
  LET permitted == PathService_check_permission(token, "read")
      result == execute_infinite_scroll_query(
                  mongo[PATH_COLLECTION_NAME], name, None, limit, sort_by, order,
                  PathService_ALLOWED_SORT_FIELDS)
      outcome == IF permitted.kind # "return" THEN permitted ELSE result
  IN IF outcome.kind = "return" THEN outcome
     ELSE IF outcome.kind = "HTTPBadRequest" THEN outcome
     ELSE HTTPInternalServerError(<<"Failed to retrieve paths">>)

PathService_get_paths(mongo, token, name, after_id, limit, sort_by, order) ==
  LET permitted == PathService_check_permission(token, "read")
      result == execute_infinite_scroll_query(
                  mongo[PATH_COLLECTION_NAME], name, after_id, limit, sort_by, order,
                  PathService_ALLOWED_SORT_FIELDS)
      outcome == IF permitted.kind # "return" THEN permitted ELSE result
  IN PathService_get_paths_handlers(outcome)

\* variant: 'description' left out of the allow-list
ResourceService_ALLOWED_SORT_FIELDS_name_only == <<"name">>

ResourceService_ALLOWED_SORT_FIELDS == <<"name", "description">>

\* variant: a cursor whose document is gone is answered with HTTPNotFound
ResourceService_get_resources_cursor_must_exist(mongo, token, name, after_id, limit, sort_by, order) ==
  LET permitted == ResourceService_check_permission(token, "read")
      result == execute_infinite_scroll_query(
                  mongo[RESOURCE_COLLECTION_NAME], name, after_id, limit, sort_by, order,
                  ResourceService_ALLOWED_SORT_FIELDS)
      gone == /\ after_id # None
              /\ ObjectIdIsValid(after_id[1])
              /\ ResumePoint(mongo[RESOURCE_COLLECTION_NAME].documents, after_id) = {}
      outcome == IF permitted.kind # "return" THEN permitted
                 ELSE IF gone THEN HTTPNotFound(<<"Resource not found">>)
                 ELSE result
  IN IF outcome.kind = "return" THEN outcome
     ELSE IF outcome.kind = "HTTPBadRequest" THEN outcome
     ELSE HTTPInternalServerError(<<"Failed to retrieve resources">>)

\* variant: after_id is not forwarded
ResourceService_get_resources_no_cursor(mongo, token, name, after_id, limit, sort_by, order) ==
  LET permitted == ResourceService_check_permission(token, "read")
      result == execute_infinite_scroll_query(
                  mongo[RESOURCE_COLLECTION_NAME], name, None, limit, sort_by, order,
                  ResourceService_ALLOWED_SORT_FIELDS)
      outcome == IF permitted.kind # "return" THEN permitted ELSE result
  IN IF outcome.kind = "return" THEN outcome
     ELSE IF outcome.kind = "HTTPBadRequest" THEN outcome
     ELSE HTTPInternalServerError(<<"Failed to retrieve resources">>)

\* variant: the engine is asked for one document more than requested
ResourceService_get_resources_limit_plus_one(mongo, token, name, after_id, limit, sort_by, order) ==
  LET permitted == ResourceService_check_permission(token, "read")
      result == execute_infinite_scroll_query(
                  mongo[RESOURCE_COLLECTION_NAME], name, after_id, limit + 1, sort_by, order,
                  ResourceService_ALLOWED_SORT_FIELDS)
      outcome == IF permitted.kind # "return" THEN permitted ELSE result
  IN IF outcome.kind = "return" THEN outcome
     ELSE IF outcome.kind = "HTTPBadRequest" THEN outcome
     ELSE HTTPInternalServerError(<<"Failed to retrieve resources">>)

\* variant: HTTPBadRequest is not re-raised
ResourceService_get_resources_no_reraise(mongo, token, name, after_id, limit, sort_by, order) ==
  LET permitted == ResourceService_check_permission(token, "read")
      result == execute_infinite_scroll_query(
                  mongo[RESOURCE_COLLECTION_NAME], name, after_id, limit, sort_by, order,
                  ResourceService_ALLOWED_SORT_FIELDS)
      outcome == IF permitted.kind # "return" THEN permitted ELSE result
  IN IF outcome.kind = "return" THEN outcome
     ELSE HTTPInternalServerError(<<"Failed to retrieve resources">>)

\* variant: the service checks sort_by against its allow-list itself, before
\* the engine validates anything
ResourceService_get_resources_sort_checked_first(mongo, token, name, after_id, limit, sort_by, order) ==
  LET permitted == ResourceService_check_permission(token, "read")
      result == execute_infinite_scroll_query(
                  mongo[RESOURCE_COLLECTION_NAME], name, after_id, limit, sort_by, order,
                  ResourceService_ALLOWED_SORT_FIELDS)
      outcome == IF permitted.kind # "return" THEN permitted
                 ELSE IF ~Contains(ResourceService_ALLOWED_SORT_FIELDS, sort_by)
                   THEN HTTPBadRequest(<<"sort_by must be one of">>
                                       \o ResourceService_ALLOWED_SORT_FIELDS)
                 ELSE result
  IN IF outcome.kind = "return" THEN outcome
     ELSE IF outcome.kind = "HTTPBadRequest" THEN outcome
     ELSE HTTPInternalServerError(<<"Failed to retrieve resources">>)

ResourceService_get_resources(mongo, token, name, after_id, limit, sort_by, order) ==
  LET permitted == ResourceService_check_permission(token, "read")
      result == execute_infinite_scroll_query(
                  mongo[RESOURCE_COLLECTION_NAME], name, after_id, limit, sort_by, order,
                  ResourceService_ALLOWED_SORT_FIELDS)
      outcome == IF permitted.kind # "return" THEN permitted ELSE result
  IN ResourceService_get_resources_handlers(outcome)

\* the calls get_paths makes, in order, with the collection operations of
\* the engine last
\* variant: the cursor's document is looked up before the engine is called
PathService_get_paths_operations_lookup_first(mongo, token, name, after_id, limit, sort_by, order) ==
  <<"_check_permission", "MongoIO.get_instance", "Config.get_instance", "get_collection">>
    \o (IF after_id # None THEN <<"find_one">> ELSE <<"find">>)
    \o execute_infinite_scroll_query_operations(
         mongo[PATH_COLLECTION_NAME], after_id, limit, sort_by, order,
         PathService_ALLOWED_SORT_FIELDS)

PathService_get_paths_operations(mongo, token, name, after_id, limit, sort_by, order) ==
  <<"_check_permission", "MongoIO.get_instance", "Config.get_instance", "get_collection">>
    \o execute_infinite_scroll_query_operations(
         mongo[PATH_COLLECTION_NAME], after_id, limit, sort_by, order,
         PathService_ALLOWED_SORT_FIELDS)

ResourceService_get_resources_operations(mongo, token, name, after_id, limit, sort_by, order) ==
  <<"_check_permission", "MongoIO.get_instance", "Config.get_instance", "get_collection">>
    \o execute_infinite_scroll_query_operations(
         mongo[RESOURCE_COLLECTION_NAME], after_id, limit, sort_by, order,
         ResourceService_ALLOWED_SORT_FIELDS)

(***************************************************************************)
(* Services: one document by id                                            *)
(***************************************************************************)
\* is needle a contiguous part of text
IsSubstring(needle, text) ==
  \E k \in 1..(Len(text) - Len(needle) + 1) :
    SubSeq(text, k, k + Len(needle) - 1) = needle

\* get_document maps a collection name to what mongo.get_document gives for
\* the requested id: Return(None), Return(Some(document)) or an exception
\* variant: HTTPNotFound is not raised again
PathService_get_path_not_found_as_error(get_document, path_id, token) ==
  LET permitted == PathService_check_permission(token, "read")
      path == get_document[PATH_COLLECTION_NAME]
      outcome ==
        IF permitted.kind # "return" THEN permitted
        ELSE IF path.kind # "return" THEN path
        ELSE IF path.value = None
          THEN HTTPNotFound(<<"P", "a", "t", "h", " ">> \o path_id
                              \o <<" ", "n", "o", "t", " ", "f", "o", "u", "n", "d">>)
        ELSE Return(path.value[1])
  IN IF outcome.kind = "return" THEN outcome
     ELSE HTTPInternalServerError(
            <<"F", "a", "i", "l", "e", "d", " ", "t", "o", " ", "r", "e", "t", "r", "i",
              "e", "v", "e", " ", "p", "a", "t", "h", " ">> \o path_id)

PathService_get_path(get_document, path_id, token) ==
  LET permitted == PathService_check_permission(token, "read")
      path == get_document[PATH_COLLECTION_NAME]
      outcome ==
        IF permitted.kind # "return" THEN permitted
        ELSE IF path.kind # "return" THEN path
        ELSE IF path.value = None
          THEN HTTPNotFound(<<"P", "a", "t", "h", " ">> \o path_id
                              \o <<" ", "n", "o", "t", " ", "f", "o", "u", "n", "d">>)
        ELSE Return(path.value[1])
  IN IF outcome.kind \in {"return", "HTTPNotFound"} THEN outcome
     ELSE HTTPInternalServerError(
            <<"F", "a", "i", "l", "e", "d", " ", "t", "o", " ", "r", "e", "t", "r", "i",
              "e", "v", "e", " ", "p", "a", "t", "h", " ">> \o path_id)

ResourceService_get_resource(get_document, resource_id, token) ==
  LET permitted == ResourceService_check_permission(token, "read")
      resource == get_document[RESOURCE_COLLECTION_NAME]
      outcome ==
        IF permitted.kind # "return" THEN permitted
        ELSE IF resource.kind # "return" THEN resource
        ELSE IF resource.value = None
          THEN HTTPNotFound(<<"R", "e", "s", "o", "u", "r", "c", "e", " ">> \o resource_id
                              \o <<" ", "n", "o", "t", " ", "f", "o", "u", "n", "d">>)
        ELSE Return(resource.value[1])
  IN IF outcome.kind \in {"return", "HTTPNotFound"} THEN outcome
     ELSE HTTPInternalServerError(
            <<"F", "a", "i", "l", "e", "d", " ", "t", "o", " ", "r", "e", "t", "r", "i",
              "e", "v", "e", " ", "r", "e", "s", "o", "u", "r", "c", "e", " ">>
              \o resource_id)

\* variant: the permission is checked once the handles are in hand
get_document_operations_permission_late ==
  <<"MongoIO.get_instance", "Config.get_instance", "_check_permission", "get_document">>

\* the calls get_path and get_resource make, in order
get_document_operations ==
  <<"_check_permission", "MongoIO.get_instance", "Config.get_instance", "get_document">>

(***************************************************************************)
(* RatingService, as its tests in test_rating_service.py fix it            *)
(***************************************************************************)
RATING_COLLECTION_NAME == "Rating"

\* the fields a client may not set, in the order they are looked for
RESTRICTED_FIELDS == <<"_id", "created", "saved">>

RatingService_get_rating(get_document, rating_id, token, breadcrumb) ==
  LET rating == get_document[RATING_COLLECTION_NAME]
      outcome ==
        IF rating.kind # "return" THEN rating
        ELSE IF rating.value = None
          THEN HTTPNotFound(<<"R", "a", "t", "i", "n", "g", " ">> \o rating_id
                              \o <<" ", "n", "o", "t", " ", "f", "o", "u", "n", "d">>)
        ELSE Return(rating.value[1])
  IN IF outcome.kind \in {"return", "HTTPNotFound"} THEN outcome
     ELSE HTTPInternalServerError(
            <<"F", "a", "i", "l", "e", "d", " ", "t", "o", " ", "r", "e", "t", "r", "i",
              "e", "v", "e", " ", "r", "a", "t", "i", "n", "g", " ">> \o rating_id)

\* update_document is what mongo.update_document gives for the requested id
RatingService_update_rating(update_document, rating_id, data, token, breadcrumb) ==
  LET offending == {i \in 1..Len(RESTRICTED_FIELDS) : RESTRICTED_FIELDS[i] \in DOMAIN data}
      outcome ==
        IF offending # {}
          THEN HTTPForbidden(
                 <<"Cannot update", RESTRICTED_FIELDS[CHOOSE i \in offending :
                                                        \A j \in offending : i <= j]>>)
        ELSE IF update_document.kind # "return" THEN update_document
        ELSE IF update_document.value = None
          THEN HTTPNotFound(<<"R", "a", "t", "i", "n", "g", " ">> \o rating_id
                              \o <<" ", "n", "o", "t", " ", "f", "o", "u", "n", "d">>)
        ELSE Return(update_document.value[1])
  IN IF outcome.kind \in {"return", "HTTPForbidden", "HTTPNotFound"} THEN outcome
     ELSE HTTPInternalServerError(
            <<"F", "a", "i", "l", "e", "d", " ", "t", "o", " ", "u", "p", "d", "a", "t",
              "e", " ", "r", "a", "t", "i", "n", "g", " ">> \o rating_id)

\* the document create_rating hands to mongo.create_document: the client's
\* fields without '_id', with 'created' and 'saved' set to the breadcrumb
RatingService_create_rating_document(data, breadcrumb) ==
  [k \in (DOMAIN data \ {"_id"}) \cup {"created", "saved"} |->
     IF k \in {"created", "saved"} THEN breadcrumb ELSE data[k]]

\* the datastore calls create_rating makes
RatingService_create_rating_operations(data, token, breadcrumb) ==
  <<[operation |-> "create_document", collection |-> RATING_COLLECTION_NAME,
     document |-> RatingService_create_rating_document(data, breadcrumb)]>>

\* create_document is what mongo.create_document gives: the new id, or an
\* exception
RatingService_create_rating(create_document, data, token, breadcrumb) ==
  IF create_document.kind = "return" THEN create_document
  ELSE HTTPInternalServerError(<<"Failed to create rating">>)

(***************************************************************************)
(* Routes                                                                  *)
(***************************************************************************)
DEFAULT_LIMIT == 10

\* request.args.get(key)
args_get(args, key) == args[key]

\* request.args.get(key, default)
args_get_default(args, key, default) ==
  IF args[key] = None THEN default ELSE args[key][1]

\* request.args.get(key, default, type=int): the default also when int() raises
args_get_int(args, key, default) ==
  IF args[key] = None THEN default
  ELSE IF IsIntLiteral(args[key][1]) THEN ParseInt(args[key][1])
  ELSE default

\* the keyword arguments the route passes to the service
service_call(args) ==
  [name |-> args_get(args, "name"),
   after_id |-> args_get(args, "after_id"),
   limit |-> args_get_int(args, "limit", DEFAULT_LIMIT),
   sort_by |-> args_get_default(args, "sort_by", "name"),
   order |-> args_get_default(args, "order", "asc")]

\* what the route hands back: jsonify(result), 200, or the exception raised
route_outcome(result) ==
  IF result.kind = "return"
    THEN [kind |-> "response", status |-> 200, body |-> result.value]
    ELSE result

\* create_flask_breadcrumb(token)
create_flask_breadcrumb(token) ==
  [from_ip |-> "127.0.0.1", by_user |-> token.user_id,
   at_time |-> "now", correlation_id |-> "id"]

\* a route that stops at create_flask_token(): nothing else has run
token_refused(flask_token) ==
  [calls |-> <<>>, operations |-> <<"create_flask_token">>, outcome |-> flask_token]

\* the route's first two statements
ROUTE_PROLOGUE == <<"create_flask_token", "create_flask_breadcrumb">>

\* each route below takes flask_token, what create_flask_token() gives: the
\* token or HTTPUnauthorized; it yields the service calls made, the
\* operations performed in order, and what the route function hands back
path_routes_get_paths(mongo, flask_token, args) ==
  IF flask_token.kind # "return" THEN token_refused(flask_token)
  ELSE
    LET token == flask_token.value
        call == service_call(args)
    IN [calls |-> <<call>>,
        operations |-> ROUTE_PROLOGUE \o
          PathService_get_paths_operations(mongo, token, call.name, call.after_id,
                                           call.limit, call.sort_by, call.order),
        outcome |-> route_outcome(
          PathService_get_paths(mongo, token, call.name, call.after_id, call.limit,
                                call.sort_by, call.order))]

resource_routes_get_resources(mongo, flask_token, args) ==
  IF flask_token.kind # "return" THEN token_refused(flask_token)
  ELSE
    LET token == flask_token.value
        call == service_call(args)
    IN [calls |-> <<call>>,
        operations |-> ROUTE_PROLOGUE \o
          ResourceService_get_resources_operations(mongo, token, call.name,
                                                   call.after_id, call.limit,
                                                   call.sort_by, call.order),
        outcome |-> route_outcome(
          ResourceService_get_resources(mongo, token, call.name, call.after_id,
                                        call.limit, call.sort_by, call.order))]

path_routes_get_path(get_document, flask_token, path_id) ==
  IF flask_token.kind # "return" THEN token_refused(flask_token)
  ELSE
    [calls |-> <<[operation |-> "PathService.get_path", id |-> path_id]>>,
     operations |-> ROUTE_PROLOGUE \o get_document_operations,
     outcome |-> route_outcome(
       PathService_get_path(get_document, path_id, flask_token.value))]

resource_routes_get_resource(get_document, flask_token, resource_id) ==
  IF flask_token.kind # "return" THEN token_refused(flask_token)
  ELSE
    [calls |-> <<[operation |-> "ResourceService.get_resource", id |-> resource_id]>>,
     operations |-> ROUTE_PROLOGUE \o get_document_operations,
     outcome |-> route_outcome(
       ResourceService_get_resource(get_document, resource_id, flask_token.value))]

rating_routes_get_rating(get_document, flask_token, rating_id) ==
  IF flask_token.kind # "return" THEN token_refused(flask_token)
  ELSE
    LET token == flask_token.value
    IN [calls |-> <<[operation |-> "RatingService.get_rating", id |-> rating_id]>>,
        operations |-> ROUTE_PROLOGUE,
        outcome |-> route_outcome(
          RatingService_get_rating(get_document, rating_id, token,
                                   create_flask_breadcrumb(token)))]

\* request.get_json() or {}
json_or_empty(json) == IF json = None THEN <<>> ELSE json[1]

\* variant: the route drops the restricted fields from the payload
rating_routes_update_rating_drops_restricted(update_document, flask_token, rating_id, json) ==
  IF flask_token.kind # "return" THEN token_refused(flask_token)
  ELSE
    LET token == flask_token.value
        sent == json_or_empty(json)
        data == [k \in DOMAIN sent \ {"_id", "created", "saved"} |-> sent[k]]
    IN [calls |-> <<[operation |-> "RatingService.update_rating", id |-> rating_id,
                     data |-> data]>>,
        operations |-> ROUTE_PROLOGUE,
        outcome |-> route_outcome(
          RatingService_update_rating(update_document, rating_id, data, token,
                                      create_flask_breadcrumb(token)))]

rating_routes_update_rating(update_document, flask_token, rating_id, json) ==
  IF flask_token.kind # "return" THEN token_refused(flask_token)
  ELSE
    LET token == flask_token.value
        data == json_or_empty(json)
    IN [calls |-> <<[operation |-> "RatingService.update_rating", id |-> rating_id,
                     data |-> data]>>,
        operations |-> ROUTE_PROLOGUE,
        outcome |-> route_outcome(
          RatingService_update_rating(update_document, rating_id, data, token,
                                      create_flask_breadcrumb(token)))]

\* variant: the request body is not handed to the service
rating_routes_create_rating_empty_body(create_document, get_document, flask_token, json) ==
  IF flask_token.kind # "return" THEN token_refused(flask_token)
  ELSE
    LET token == flask_token.value
        breadcrumb == create_flask_breadcrumb(token)
        data == json_or_empty(None)
        rating_id == RatingService_create_rating(create_document, data, token, breadcrumb)
        create == [operation |-> "RatingService.create_rating", data |-> data,
                   datastore |->
                     RatingService_create_rating_operations(data, token, breadcrumb)]
        rating == RatingService_get_rating(get_document, rating_id.value, token, breadcrumb)
    IN IF rating_id.kind # "return"
         THEN [calls |-> <<create>>, operations |-> ROUTE_PROLOGUE, outcome |-> rating_id]
       ELSE [calls |-> <<create, [operation |-> "RatingService.get_rating",
                                  id |-> rating_id.value]>>,
             operations |-> ROUTE_PROLOGUE,
             outcome |-> IF rating.kind # "return" THEN rating
                         ELSE [kind |-> "response", status |-> 201, body |-> rating.value]]

\* POST /api/rating: create, read back, 201 with the document read back
rating_routes_create_rating(create_document, get_document, flask_token, json) ==
  IF flask_token.kind # "return" THEN token_refused(flask_token)
  ELSE
    LET token == flask_token.value
        breadcrumb == create_flask_breadcrumb(token)
        data == json_or_empty(json)
        rating_id == RatingService_create_rating(create_document, data, token, breadcrumb)
        create == [operation |-> "RatingService.create_rating", data |-> data,
                   datastore |->
                     RatingService_create_rating_operations(data, token, breadcrumb)]
        rating == RatingService_get_rating(get_document, rating_id.value, token, breadcrumb)
    IN IF rating_id.kind # "return"
         THEN [calls |-> <<create>>, operations |-> ROUTE_PROLOGUE, outcome |-> rating_id]
       ELSE [calls |-> <<create, [operation |-> "RatingService.get_rating",
                                  id |-> rating_id.value]>>,
             operations |-> ROUTE_PROLOGUE,
             outcome |-> IF rating.kind # "return" THEN rating
                         ELSE [kind |-> "response", status |-> 201, body |-> rating.value]]

\* variant: the route answers 201 with the request body and the new id,
\* without reading the document back
curriculum_routes_create_curriculum_no_read_back(service, flask_token, json) ==
  IF flask_token.kind # "return" THEN token_refused(flask_token)
  ELSE
    LET data == json_or_empty(json)
        create == [operation |-> "CurriculumService.create_curriculum", data |-> data]
    IN IF service.create_curriculum.kind # "return"
         THEN [calls |-> <<create>>, operations |-> ROUTE_PROLOGUE,
               outcome |-> service.create_curriculum]
       ELSE [calls |-> <<create>>,
             operations |-> ROUTE_PROLOGUE,
             outcome |-> [kind |-> "response", status |-> 201,
                          body |-> [_id |-> service.create_curriculum.value,
                                    name |-> <<"B">>]]]

\* variant: the token is created after the document
curriculum_routes_create_curriculum_token_last(service, flask_token, json) ==
  LET data == json_or_empty(json)
      create == [operation |-> "CurriculumService.create_curriculum", data |-> data]
  IN IF service.create_curriculum.kind # "return"
       THEN [calls |-> <<create>>, operations |-> <<>>,
             outcome |-> service.create_curriculum]
     ELSE IF flask_token.kind # "return"
       THEN [calls |-> <<create>>, operations |-> <<"create_flask_token">>,
             outcome |-> flask_token]
     ELSE [calls |-> <<create,
                       [operation |-> "CurriculumService.get_curriculum",
                        id |-> service.create_curriculum.value]>>,
           operations |-> ROUTE_PROLOGUE,
           outcome |->
             IF service.get_curriculum.kind # "return" THEN service.get_curriculum
             ELSE [kind |-> "response", status |-> 201,
                   body |-> service.get_curriculum.value]]

\* service gives what CurriculumService.create_curriculum and
\* CurriculumService.get_curriculum do when called; 201 with the document read back
curriculum_routes_create_curriculum(service, flask_token, json) ==
  IF flask_token.kind # "return" THEN token_refused(flask_token)
  ELSE
    LET data == json_or_empty(json)
        create == [operation |-> "CurriculumService.create_curriculum", data |-> data]
    IN IF service.create_curriculum.kind # "return"
         THEN [calls |-> <<create>>, operations |-> ROUTE_PROLOGUE,
               outcome |-> service.create_curriculum]
       ELSE [calls |-> <<create,
                         [operation |-> "CurriculumService.get_curriculum",
                          id |-> service.create_curriculum.value]>>,
             operations |-> ROUTE_PROLOGUE,
             outcome |->
               IF service.get_curriculum.kind # "return" THEN service.get_curriculum
               ELSE [kind |-> "response", status |-> 201,
                     body |-> service.get_curriculum.value]]

\* @handle_route_exceptions: an exception becomes its status and an 'error' body
STATUS ==
  [HTTPBadRequest |-> 400, HTTPUnauthorized |-> 401, HTTPForbidden |-> 403,
   HTTPNotFound |-> 404, HTTPInternalServerError |-> 500, PyMongoError |-> 500]

handle_route_exceptions(outcome) ==
  IF outcome.kind = "response" THEN [status |-> outcome.status, body |-> outcome.body]
  ELSE [status |-> STATUS[outcome.kind], body |-> [error |-> outcome.message]]

(***************************************************************************)
(* Inputs                                                                  *)
(***************************************************************************)
\* last byte of the identifiers of the documents that may exist
IdLastByte == <<171, 9, 10, 172, 16, 255>>

OID(k) ==
  [i \in 1..ObjectIdBytes |->
     IF i = 1 THEN 80 ELSE IF i = ObjectIdBytes THEN IdLastByte[k] ELSE 0]

CollectionNames == {PATH_COLLECTION_NAME, RESOURCE_COLLECTION_NAME}

\* the sortable fields a document may carry: the two fields order them oppositely
FieldPool ==
  { [name |-> <<"a", "l">>, description |-> <<"x">>],
    [name |-> <<"B">>, description |-> <<"y">>] }

\* where one identifier lives: in no collection, or in one with its fields
Placements ==
  {[collection |-> "absent", fields |-> [name |-> <<>>, description |-> <<>>]]}
    \cup [collection : CollectionNames, fields : FieldPool]

Document(k, fields) ==
  [_id |-> OID(k), name |-> fields.name, description |-> fields.description]

Datastore(place) ==
  [c \in CollectionNames |->
     {Document(k, place[k].fields) : k \in {j \in 1..MaxDocs : place[j].collection = c}}]

\* one fixed datastore: every identifier in both collections
FixtureDatastore ==
  [c \in CollectionNames |->
     {Document(k, IF k % 2 = 1 THEN [name |-> <<"a", "l">>, description |-> <<"x">>]
                               ELSE [name |-> <<"B">>, description |-> <<"y">>]) :
        k \in 1..MaxDocs}]

\* str.upper() on a text
UpperText(s) ==
  [i \in 1..Len(s) |->
     IF Lower(s[i]) = s[i] /\ Ord[s[i]] > Ord["_"] THEN Alphabet[Ord[s[i]] - 27]
     ELSE s[i]]

NameArgs == {None, Some(<<"A", "L">>)}

\* name filters, one of them with a character the pattern language gives a meaning
PatternArgs == NameArgs \cup {Some(<<"a", ".">>)}

\* cursors that parse: the first identifier in upper case, the others as issued
ValidAfterIdArgs ==
  {None, Some(UpperText(ObjectIdStr(OID(1))))}
    \cup {Some(ObjectIdStr(OID(k))) : k \in 2..MaxDocs}

\* cursors that do not parse: a word, and an identifier one digit short
AfterIdArgs ==
  ValidAfterIdArgs
    \cup {Some(<<"i", "n", "v", "a", "l", "i", "d">>), Some(Tail(ObjectIdStr(OID(1))))}

PagingLimitArgs == {None, Some(<<"1">>), Some(<<"2">>)}

LimitArgs ==
  PagingLimitArgs
    \cup {Some(<<"0">>), Some(<<"1", "0", "0">>), Some(<<"1", "0", "1">>),
          Some(<<"a", "b", "c">>)}

SortByArgs == {None, Some("description"), Some("invalid_field")}

OrderArgs == {None, Some("desc"), Some("ASC"), Some("upward")}

\* query strings that pass every parameter rule
ScrollArgs ==
  [name : NameArgs, after_id : ValidAfterIdArgs, limit : PagingLimitArgs,
   sort_by : {None, Some("description")}, order : {None, Some("desc")}]

\* first requests of a scroll, one or two documents a page
FirstPageArgs ==
  [name : NameArgs, after_id : {None}, limit : {Some(<<"1">>), Some(<<"2">>)},
   sort_by : {None, Some("description")}, order : {None, Some("desc")}]

\* first requests a client makes more than once
RepeatedArgs ==
  [name : {None}, after_id : {None}, limit : {Some(<<"0">>), Some(<<"1">>), Some(<<"2">>)},
   sort_by : {None}, order : {None, Some("desc")}]

\* exceptions a statement of a try block may raise
Raisable ==
  {HTTPForbidden(<<"Insufficient permissions to read path documents">>),
   HTTPNotFound(<<"Not found">>),
   HTTPUnauthorized(<<"Invalid token">>),
   HTTPBadRequest(<<"Bad request">>),
   PyMongoError(<<CONNECTION_REFUSED>>),
   RuntimeError(<<"Config not initialised">>)}

\* query strings with well-formed and malformed values
QueryArgs ==
  [name : PatternArgs, after_id : AfterIdArgs, limit : LimitArgs,
   sort_by : SortByArgs, order : OrderArgs]

TOKEN == [user_id |-> "test_user"]

\* ids in a URL: of documents held, of a document not held, and no ObjectId
DocumentIdArgs ==
  {ObjectIdStr(OID(k)) : k \in {1, MaxDocs, MaxDocs + 1}} \cup {<<"9", "9", "9">>}

\* a JSON object with the given keys
Payload(keys) == [k \in keys |-> "value"]

\* request bodies: none, or an object over these keys
JsonArgs ==
  {None} \cup {Some(Payload(keys)) : keys \in SUBSET {"_id", "created", "saved", "name"}}

\* what the curriculum service may do when called
CurriculumService ==
  [create_curriculum :
     {Return(<<"1", "2", "3">>), Return(<<"4", "5", "6">>),
      HTTPInternalServerError(<<"Failed to create curriculum">>)},
   get_curriculum :
     {Return([_id |-> <<"1", "2", "3">>, name |-> <<"B">>]),
      HTTPNotFound(<<"Curriculum 123 not found">>)}]

(***************************************************************************)
(* State machine                                                           *)
(***************************************************************************)
NoScroll == [state |-> "none", pages |-> <<>>]

NoHistory == [read |-> {}, unchanged |-> {}, writes |-> 0, raised |-> None]

\* the server after start-up: mongo = MongoIO.get_instance(), both signal
\* handlers registered, none running
Running ==
  [state |-> "serving", mongo |-> Some("MongoIO"), handlers |-> <<>>,
   exit_code |-> None, exited_by |-> None, log |-> <<>>]

Idle ==
  /\ request = None
  /\ calls = <<>>
  /\ response = None
  /\ reply = None
  /\ trace = <<>>
  /\ scroll = NoScroll
  /\ available = TRUE
  /\ authorized = TRUE
  /\ history = NoHistory
  /\ previous = None
  /\ process = Running

\* any datastore of at most MaxDocs documents
Init == db \in {Datastore(place) : place \in [1..MaxDocs -> Placements]} /\ Idle

InitRequests == db = FixtureDatastore /\ Idle

\* MongoIO.get_instance(): a handle per collection
MongoIO_get_instance ==
  [c \in CollectionNames |-> Collection_handle(db[c], available)]

\* create_flask_token(): the token of the request, or HTTPUnauthorized
create_flask_token ==
  IF authorized THEN Return(TOKEN) ELSE HTTPUnauthorized(<<"Invalid token">>)

IsPage(outcome) == outcome.kind = "response"

\* the client's view of a scroll after one more page
Scrolled(pages, outcome) ==
  IF IsPage(outcome)
    THEN [state |-> IF outcome.body.has_more THEN "open" ELSE "done",
          pages |-> Append(pages, outcome.body.items)]
    ELSE [state |-> "failed", pages |-> pages]

CollectionOf(domain) ==
  IF domain = "path" THEN PATH_COLLECTION_NAME ELSE RESOURCE_COLLECTION_NAME

\* variant: the server keeps a position per domain; a request without a
\* cursor resumes where the last page kept by a client of that domain ended
Route_resuming(domain, args) ==
  LET kept == /\ previous # None
              /\ previous[1].request.domain = domain
              /\ IsPage(previous[1].response)
              /\ previous[1].response.body.next_cursor # None
      resumed == IF args.after_id = None /\ kept
                   THEN [args EXCEPT !.after_id = previous[1].response.body.next_cursor]
                   ELSE args
  IN IF domain = "path"
       THEN path_routes_get_paths(MongoIO_get_instance, create_flask_token, resumed)
       ELSE resource_routes_get_resources(MongoIO_get_instance, create_flask_token, resumed)

Route(domain, args) ==
  IF domain = "path"
    THEN path_routes_get_paths(MongoIO_get_instance, create_flask_token, args)
    ELSE resource_routes_get_resources(MongoIO_get_instance, create_flask_token, args)

\* variant: a list request takes the documents it returns out of the collection
Respond_consuming(operation, domain, args, r) ==
  /\ request' = Some([operation |-> operation, domain |-> domain, args |-> args])
  /\ calls' = r.calls
  /\ response' = Some(r.outcome)
  /\ reply' = Some(handle_route_exceptions(r.outcome))
  /\ trace' = r.operations
  /\ db' = IF operation = "list" /\ IsPage(r.outcome)
             THEN [db EXCEPT ![CollectionOf(domain)] =
                     {d \in @ : \A i \in 1..Len(r.outcome.body.items) :
                                   r.outcome.body.items[i] # ToItem(d)}]
             ELSE db
  /\ process.state = "serving"
  /\ UNCHANGED <<available, authorized, previous, process>>

\* what every request leaves behind
Respond(operation, domain, args, r) ==
  /\ request' = Some([operation |-> operation, domain |-> domain, args |-> args])
  /\ calls' = r.calls
  /\ response' = Some(r.outcome)
  /\ reply' = Some(handle_route_exceptions(r.outcome))
  /\ trace' = r.operations
  /\ process.state = "serving"
  /\ UNCHANGED <<db, available, authorized, previous, process>>

\* a list request; pages are the pages of the scroll it continues.  A page
\* fetched under another sort specification than the scroll's ends the scroll
\* as "resorted".
Serve(domain, args, pages) ==
  \E r \in {Route(domain, args)} :
     /\ Respond("list", domain, args, r)
     /\ scroll' = IF args.after_id = None \/ pages # <<>>
                    THEN IF /\ pages # <<>>
                            /\ <<args.sort_by, args.order>> #
                                 <<request[1].args.sort_by, request[1].args.order>>
                           THEN [Scrolled(pages, r.outcome) EXCEPT !.state = "resorted"]
                           ELSE Scrolled(pages, r.outcome)
                    ELSE NoScroll
     /\ history' = [read |-> db[CollectionOf(domain)],
                    unchanged |-> IF pages = <<>> THEN db[CollectionOf(domain)]
                                                  ELSE history.unchanged,
                    writes |-> history.writes, raised |-> None]

\* GET /api/path
GetPaths(Args) ==
  /\ request = None
  /\ \E args \in Args : Serve("path", args, <<>>)

\* GET /api/resource
GetResources(Args) ==
  /\ request = None
  /\ \E args \in Args : Serve("resource", args, <<>>)

\* the client repeats its request with after_id set to the page's next_cursor
FollowCursor ==
  /\ scroll.state = "open"
  /\ Len(scroll.pages) < MaxPages
  /\ Serve(request[1].domain,
           [request[1].args EXCEPT !.after_id = response[1].body.next_cursor],
           scroll.pages)

\* the client drops the response
Forget ==
  /\ request # None
  /\ request' = None
  /\ calls' = <<>>
  /\ response' = None
  /\ reply' = None
  /\ trace' = <<>>
  /\ scroll' = NoScroll
  /\ history' = [NoHistory EXCEPT !.writes = history.writes]
  /\ UNCHANGED <<db, available, authorized, previous, process>>

\* the client keeps a list request and its response, with the collection as
\* the request read it, and goes on to other requests
Remember ==
  /\ request # None
  /\ request[1].operation = "list"
  /\ previous' = Some([request |-> request[1], response |-> response[1],
                       collection |-> history.read])
  /\ request' = None
  /\ calls' = <<>>
  /\ response' = None
  /\ reply' = None
  /\ trace' = <<>>
  /\ scroll' = NoScroll
  /\ history' = [NoHistory EXCEPT !.writes = history.writes]
  /\ UNCHANGED <<db, available, authorized, process>>

\* the client follows the cursor under another sort field or direction
FollowCursorResorted ==
  /\ scroll.state = "open"
  /\ Len(scroll.pages) < MaxPages
  /\ \E sort_by \in {None, Some("description")}, order \in {None, Some("desc")} :
       /\ <<sort_by, order>> # <<request[1].args.sort_by, request[1].args.order>>
       /\ Serve(request[1].domain,
                [request[1].args EXCEPT !.after_id = response[1].body.next_cursor,
                                        !.sort_by = sort_by, !.order = order],
                scroll.pages)

\* another client writes to the collection being scrolled, between two pages
Written(collection) ==
  /\ db' = [db EXCEPT ![CollectionOf(request[1].domain)] = collection]
  /\ history' = [history EXCEPT !.unchanged = @ \cap collection, !.writes = @ + 1]
  /\ UNCHANGED <<request, calls, response, reply, trace, scroll, available, authorized, previous, process>>

InsertDocument ==
  /\ scroll.state = "open"
  /\ history.writes < MaxWrites
  /\ \E k \in 1..MaxDocs, fields \in FieldPool :
       /\ \A d \in db[CollectionOf(request[1].domain)] : d._id # OID(k)
       /\ Written(db[CollectionOf(request[1].domain)] \cup {Document(k, fields)})

DeleteDocument ==
  /\ scroll.state = "open"
  /\ history.writes < MaxWrites
  /\ \E d \in db[CollectionOf(request[1].domain)] :
       Written(db[CollectionOf(request[1].domain)] \ {d})

\* a request outside a scroll; read is what it got from the datastore
ServeOnce(operation, domain, args, r, read) ==
  /\ request = None
  /\ Respond(operation, domain, args, r)
  /\ scroll' = NoScroll
  /\ history' = [read |-> read, unchanged |-> {}, writes |-> history.writes,
                 raised |-> None]

\* mongo.get_document(collection_name, document_id): what it may give.  The
\* Rating collection is not held in db: any of its documents may or may not
\* exist.  An id that is no ObjectId is not found, or raises.
MongoIO_get_document(collection_name, document_id) ==
  IF ~available THEN {PyMongoError(<<CONNECTION_REFUSED>>)}
  ELSE IF ~ObjectIdIsValid(document_id)
    THEN {Return(None), PyMongoError(<<"InvalidId">>)}
  ELSE IF collection_name = RATING_COLLECTION_NAME
    THEN {Return(None),
          Return(Some([_id |-> ObjectId(document_id), name |-> <<"B">>]))}
  ELSE LET found == {d \in db[collection_name] : d._id = ObjectId(document_id)}
       IN IF found = {} THEN {Return(None)} ELSE {Return(Some(d)) : d \in found}

\* mongo.get_document for one id, as a function of the collection name
GetDocument(document_id) ==
  {[c \in CollectionNames \cup {RATING_COLLECTION_NAME} |->
      IF c = PATH_COLLECTION_NAME THEN p
      ELSE IF c = RESOURCE_COLLECTION_NAME THEN q ELSE t] :
     p \in MongoIO_get_document(PATH_COLLECTION_NAME, document_id),
     q \in MongoIO_get_document(RESOURCE_COLLECTION_NAME, document_id),
     t \in MongoIO_get_document(RATING_COLLECTION_NAME, document_id)}

\* mongo.update_document(...): the updated document, None, or an exception
MongoIO_update_document(document_id) ==
  IF ~available THEN {PyMongoError(<<CONNECTION_REFUSED>>)}
  ELSE {Return(None), Return(Some([_id |-> document_id, name |-> <<"B">>]))}

\* GET /api/path/<id>
GetPath ==
  \E path_id \in DocumentIdArgs : \E get_document \in GetDocument(path_id) :
    ServeOnce("get", "path", [id |-> path_id],
              path_routes_get_path(get_document, create_flask_token, path_id),
              get_document[PATH_COLLECTION_NAME])

\* GET /api/resource/<id>
GetResource ==
  \E resource_id \in DocumentIdArgs : \E get_document \in GetDocument(resource_id) :
    ServeOnce("get", "resource", [id |-> resource_id],
              resource_routes_get_resource(get_document, create_flask_token, resource_id),
              get_document[RESOURCE_COLLECTION_NAME])

\* GET /api/rating/<id>
GetRating ==
  \E rating_id \in DocumentIdArgs : \E get_document \in GetDocument(rating_id) :
    ServeOnce("get", "rating", [id |-> rating_id],
              rating_routes_get_rating(get_document, create_flask_token, rating_id),
              get_document[RATING_COLLECTION_NAME])

\* PATCH /api/rating/<id>
UpdateRating ==
  \E rating_id \in DocumentIdArgs, json \in JsonArgs :
    \E update_document \in MongoIO_update_document(rating_id) :
      ServeOnce("update", "rating", [id |-> rating_id, json |-> json],
                rating_routes_update_rating(update_document, create_flask_token,
                                            rating_id, json),
                update_document)

\* POST /api/curriculum
CreateCurriculum ==
  \E json \in {None, Some(Payload({"name"}))} : \E service \in CurriculumService :
    ServeOnce("create", "curriculum", [json |-> json],
              curriculum_routes_create_curriculum(service, create_flask_token, json),
              [create |-> service.create_curriculum, get |-> service.get_curriculum])

\* mongo.create_document(...): the id of the new document, or an exception
MongoIO_create_document ==
  IF ~available THEN {PyMongoError(<<CONNECTION_REFUSED>>)}
  ELSE {Return(ObjectIdStr(OID(k))) : k \in {1, MaxDocs + 1}}

\* POST /api/rating
CreateRating ==
  \E json \in JsonArgs : \E create_document \in MongoIO_create_document :
    \E get_document \in (IF create_document.kind = "return"
                           THEN GetDocument(create_document.value)
                           ELSE GetDocument(ObjectIdStr(OID(1)))) :
      ServeOnce("create", "rating", [json |-> json],
                rating_routes_create_rating(create_document, get_document,
                                            create_flask_token, json),
                [create |-> RatingService_create_rating(
                              create_document, json_or_empty(json), TOKEN,
                              create_flask_breadcrumb(TOKEN)),
                 get |-> RatingService_get_rating(
                           get_document,
                           IF create_document.kind = "return" THEN create_document.value
                                                              ELSE <<>>,
                           TOKEN, create_flask_breadcrumb(TOKEN))])

\* GET /api/path or /api/resource when statement i of the service's try
\* block raises e instead of returning: the except clauses decide
RaisedInTry ==
  /\ request = None
  /\ authorized
  /\ \E domain \in {"path", "resource"} : \E args \in RepeatedArgs :
       \E i \in 1..Len(TRY_BLOCK) : \E e \in Raisable :
         /\ Respond("list", domain, args,
                    [calls |-> <<service_call(args)>>,
                     operations |-> ROUTE_PROLOGUE \o Take(TRY_BLOCK, i),
                     outcome |-> route_outcome(
                       IF domain = "path" THEN PathService_get_paths_handlers(e)
                       ELSE ResourceService_get_resources_handlers(e))])
         /\ scroll' = NoScroll
         /\ history' = [NoHistory EXCEPT
                          !.writes = history.writes,
                          !.raised = Some([operation |-> TRY_BLOCK[i], exception |-> e])]

\* the client's token stops being accepted, and is renewed, between requests
TokenExpires ==
  /\ request = None
  /\ authorized
  /\ authorized' = FALSE
  /\ UNCHANGED <<db, request, calls, response, reply, trace, scroll, available, history, previous, process>>

TokenRenewed ==
  /\ request = None
  /\ ~authorized
  /\ authorized' = TRUE
  /\ UNCHANGED <<db, request, calls, response, reply, trace, scroll, available, history, previous, process>>

\* the datastore becomes unreachable, and reachable again, between requests
Outage ==
  /\ request = None
  /\ available
  /\ available' = FALSE
  /\ UNCHANGED <<db, request, calls, response, reply, trace, scroll, authorized, history, previous, process>>

Recovery ==
  /\ request = None
  /\ ~available
  /\ available' = TRUE
  /\ UNCHANGED <<db, request, calls, response, reply, trace, scroll, authorized, history, previous, process>>

Next == GetPaths(ScrollArgs) \/ GetResources(ScrollArgs) \/ FollowCursor \/ Forget

NextRequests == GetPaths(QueryArgs) \/ GetResources(QueryArgs) \/ FollowCursor \/ Forget

NextFaults == NextRequests \/ Outage \/ Recovery

NextApi ==
  \/ GetPaths(FirstPageArgs) \/ GetResources(FirstPageArgs)
  \/ GetPath \/ GetResource \/ GetRating
  \/ UpdateRating \/ CreateCurriculum \/ CreateRating
  \/ TokenExpires \/ TokenRenewed
  \/ Outage \/ Recovery
  \/ Forget

NextWriters ==
  \/ GetPaths(FirstPageArgs) \/ GetResources(FirstPageArgs)
  \/ FollowCursor \/ FollowCursorResorted
  \/ InsertDocument \/ DeleteDocument
  \/ Forget

\* the handler that is running: the one entered last
Handler == process.handlers[Len(process.handlers)]

\* a step of the running handler that takes it to pc and logs message
HandlerStep(pc, message) ==
  /\ process' = [process EXCEPT !.handlers[Len(process.handlers)].pc = pc,
                                !.log = Append(@, message)]
  /\ UNCHANGED <<db, request, calls, response, reply, trace, scroll, available,
                 authorized, history, previous>>

\* SIGTERM or SIGINT is delivered: handle_exit(signum, frame) is entered, on
\* top of a handler already running if there is one
Signal ==
  /\ process.state = "serving"
  /\ Len(process.handlers) < MaxSignals
  /\ \E signum \in {"SIGTERM", "SIGINT"} :
       process' = [process EXCEPT
                     !.handlers = Append(@, [signum |-> signum, pc |-> "entered",
                                             disconnects |-> 0, raised |-> FALSE]),
                     !.log = Append(@, "Received signal")]
  /\ UNCHANGED <<db, request, calls, response, reply, trace, scroll, available,
                 authorized, history, previous>>

\* if mongo is not None:
CheckMongo ==
  /\ process.handlers # <<>>
  /\ Handler.pc = "entered"
  /\ IF process.mongo # None
       THEN HandlerStep("disconnect", "Closing MongoDB connection.")
       ELSE HandlerStep("complete", "Shutdown complete.")

\* mongo.disconnect() is called and returns
DisconnectReturns ==
  /\ process.handlers # <<>>
  /\ Handler.pc = "disconnect"
  /\ process' = [process EXCEPT
                   !.handlers[Len(process.handlers)] =
                     [@ EXCEPT !.pc = "complete", !.disconnects = @ + 1],
                   !.log = Append(@, "Shutdown complete.")]
  /\ UNCHANGED <<db, request, calls, response, reply, trace, scroll, available,
                 authorized, history, previous>>

\* variant: no try around mongo.disconnect(); the exception leaves the
\* handler and ends the process
DisconnectRaises_uncaught ==
  /\ process.handlers # <<>>
  /\ Handler.pc = "disconnect"
  /\ process' = [process EXCEPT
                   !.state = "exited",
                   !.exit_code = Some(1),
                   !.exited_by = Some([Handler EXCEPT !.disconnects = @ + 1,
                                                      !.raised = TRUE]),
                   !.handlers = <<>>]
  /\ UNCHANGED <<db, request, calls, response, reply, trace, scroll, available,
                 authorized, history, previous>>

\* mongo.disconnect() is called and raises: except Exception as e
DisconnectRaises ==
  /\ process.handlers # <<>>
  /\ Handler.pc = "disconnect"
  /\ process' = [process EXCEPT
                   !.handlers[Len(process.handlers)] =
                     [@ EXCEPT !.pc = "failed", !.disconnects = @ + 1,
                               !.raised = TRUE]]
  /\ UNCHANGED <<db, request, calls, response, reply, trace, scroll, available,
                 authorized, history, previous>>

\* logger.error(f"Error disconnecting from MongoDB: {e}")
LogError ==
  /\ process.handlers # <<>>
  /\ Handler.pc = "failed"
  /\ process' = [process EXCEPT
                   !.handlers[Len(process.handlers)].pc = "complete",
                   !.log = @ \o <<"Error disconnecting from MongoDB", "Shutdown complete.">>]
  /\ UNCHANGED <<db, request, calls, response, reply, trace, scroll, available,
                 authorized, history, previous>>

\* sys.exit(0): SystemExit leaves the handler and every handler it
\* interrupted, none of which catches it, and the process ends
Exit ==
  /\ process.handlers # <<>>
  /\ Handler.pc = "complete"
  /\ process' = [process EXCEPT
                   !.state = "exited",
                   !.exit_code = Some(0),
                   !.exited_by = Some(Handler),
                   !.handlers = <<>>]
  /\ UNCHANGED <<db, request, calls, response, reply, trace, scroll, available,
                 authorized, history, previous>>

\* the statements of handle_exit
handle_exit == CheckMongo \/ DisconnectReturns \/ DisconnectRaises \/ LogError \/ Exit

NextShutdown ==
  \/ GetPaths(RepeatedArgs) \/ GetResources(RepeatedArgs)
  \/ FollowCursor \/ Forget
  \/ Signal
  \/ CheckMongo \/ DisconnectReturns \/ DisconnectRaises \/ LogError \/ Exit

NextOutcomes == NextFaults \/ RaisedInTry

NextReads ==
  \/ GetPaths(RepeatedArgs) \/ GetResources(RepeatedArgs)
  \/ FollowCursor
  \/ GetPath \/ GetResource
  \/ InsertDocument \/ DeleteDocument
  \/ Forget

NextStateless ==
  \/ GetPaths(RepeatedArgs) \/ GetResources(RepeatedArgs)
  \/ FollowCursor
  \/ DeleteDocument
  \/ Forget \/ Remember

\* scrolls over every small datastore
Spec == Init /\ [][Next]_vars

\* well-formed and malformed requests against one datastore
SpecRequests == InitRequests /\ [][NextRequests]_vars

\* well-formed and malformed requests against a datastore that comes and goes
SpecFaults == InitRequests /\ [][NextFaults]_vars

\* every modelled route, with a token that expires and a datastore that
\* comes and goes
SpecApi == InitRequests /\ [][NextApi]_vars

\* scrolls over collections that other clients write to
SpecWriters == InitRequests /\ [][NextWriters]_vars

(***************************************************************************)
(* The request under examination                                           *)
(***************************************************************************)
Served == request # None

\* the keyword arguments the service was called with
Call == calls[1]

Outcome == response[1]

Page == Outcome.body

\* the collection the requested domain reads
Collection ==
  db[IF request[1].domain = "path" THEN PATH_COLLECTION_NAME
                                   ELSE RESOURCE_COLLECTION_NAME]

\* the documents the name filter selects, as returned items
Matching == {ToItem(d) : d \in {e \in Collection : NameFilter(e, Call.name)}}

\* the document the cursor names, as a returned item
ResumeItems == {ToItem(d) : d \in ResumePoint(Collection, Call.after_id)}

\* a strictly precedes b in (sort field in the requested direction, identifier)
ItemBefore(a, b) ==
  \/ IF Call.order = "asc" THEN StrLess(a[Call.sort_by], b[Call.sort_by])
                           ELSE StrLess(b[Call.sort_by], a[Call.sort_by])
  \/ a[Call.sort_by] = b[Call.sort_by] /\ StrLess(a._id, b._id)

RECURSIVE Flatten(_)
Flatten(pages) ==
  IF pages = <<>> THEN <<>> ELSE Head(pages) \o Flatten(Tail(pages))

\* everything the scroll has returned so far
Returned == Flatten(scroll.pages)

ItemsOf(seq) == {seq[i] : i \in 1..Len(seq)}

(***************************************************************************)
(* Scroll properties                                                       *)
(***************************************************************************)
\* C1: a scroll followed from the first page until has_more is false has
\* returned every document matching the filter exactly once, in the
\* requested sort order.
NoGap ==
  scroll.state = "done" =>
    /\ Len(Returned) = Cardinality(Matching)
    /\ ItemsOf(Returned) = Matching
    /\ \A i, j \in 1..Len(Returned) : i < j => ItemBefore(Returned[i], Returned[j])

\* a finished descending scroll of three one-document pages over Path
NoGapWitness ==
  /\ scroll.state = "done"
  /\ request[1].domain = "path"
  /\ Call.order = "desc"
  /\ Len(scroll.pages) = 3
  /\ Len(Returned) = 3

\* several matching documents share the sort-field value
HasTies ==
  \E a, b \in Matching : a # b /\ a[Call.sort_by] = b[Call.sort_by]

\* C2: when documents share the sort-field value, at every point of a scroll
\* no document has been returned twice and none has been skipped: a matching
\* document not yet returned lies after the last one returned.
StableUnderDuplicates ==
  (scroll.state \in {"open", "done"} /\ HasTies) =>
    /\ \A i, j \in 1..Len(Returned) : i # j => Returned[i]._id # Returned[j]._id
    /\ \A m \in Matching \ ItemsOf(Returned) :
         scroll.state = "open" /\ ItemBefore(Returned[Len(Returned)], m)

\* a page boundary of a Resource scroll falls inside a group of equal values
StableUnderDuplicatesWitness ==
  /\ scroll.state \in {"open", "done"}
  /\ request[1].domain = "resource"
  /\ Len(scroll.pages) >= 2
  /\ scroll.pages[2] # <<>>
  /\ scroll.pages[1][Len(scroll.pages[1])][Call.sort_by] = scroll.pages[2][1][Call.sort_by]

\* the matching documents beyond the returned page: after its last item, or,
\* for an empty page, after the resume point
Beyond ==
  IF Page.items # <<>>
    THEN {m \in Matching : ItemBefore(Page.items[Len(Page.items)], m)}
    ELSE LET resume == ResumeItems
         IN {m \in Matching : \A r \in resume : ItemBefore(r, m)}

\* C3: a page holds at most limit items, and has_more is true exactly when a
\* matching document exists beyond the page.
PageSizeAndHasMore ==
  (Served /\ IsPage(Outcome)) =>
    /\ Len(Page.items) <= Call.limit
    /\ Page.has_more <=> (Beyond # {})

\* a full page of Path fetched after a cursor, with more to come
PageSizeAndHasMoreWitness ==
  /\ Served
  /\ IsPage(Outcome)
  /\ request[1].domain = "path"
  /\ Call.after_id # None
  /\ Call.name # None
  /\ Page.has_more
  /\ Len(Page.items) = Call.limit

\* the documents the query selects: matching and after the resume point
Selected ==
  LET resume == ResumeItems
  IN {m \in Matching : \A r \in resume : ItemBefore(r, m)}

\* C4: next_cursor is null exactly when has_more is false, and then every
\* selected document is in the page; when has_more is true the page holds
\* exactly limit items and next_cursor names the last of them.
CursorIffMore ==
  (Served /\ IsPage(Outcome)) =>
    /\ (Page.next_cursor = None) <=> ~Page.has_more
    /\ Page.has_more =>
         /\ Len(Page.items) = Call.limit
         /\ Page.next_cursor = Some(Page.items[Len(Page.items)]._id)
         /\ Selected \ ItemsOf(Page.items) # {}
    /\ ~Page.has_more => ItemsOf(Page.items) = Selected

\* a trimmed page of two Resource items whose cursor names the second
CursorIffMoreWitness ==
  /\ Served
  /\ IsPage(Outcome)
  /\ request[1].domain = "resource"
  /\ Page.has_more
  /\ Len(Page.items) = 2
  /\ Page.next_cursor = Some(Page.items[2]._id)

(***************************************************************************)
(* Parameter rules                                                         *)
(***************************************************************************)
Rejected == Outcome.kind = "HTTPBadRequest"

LimitInRange == 1 <= Call.limit /\ Call.limit <= 100

SortByAllowed == Call.sort_by \in {"name", "description"}

OrderAllowed == Call.order \in {"asc", "desc"}

\* the cursor is 24 hexadecimal digits
CursorWellFormed ==
  /\ Len(Call.after_id[1]) = 24
  /\ \A i \in 1..Len(Call.after_id[1]) :
       Call.after_id[1][i] \in
         {"0", "1", "2", "3", "4", "5", "6", "7", "8", "9",
          "a", "b", "c", "d", "e", "f", "A", "B", "C", "D", "E", "F"}

\* C5: limit < 1 and limit > 100 are rejected with HTTPBadRequest naming the
\* bound violated; no limit in 1..100 is rejected for its limit.
LimitRule ==
  Served =>
    /\ Call.limit < 1 => Outcome = HTTPBadRequest(<<"limit must be >= 1">>)
    /\ Call.limit > 100 => Outcome = HTTPBadRequest(<<"limit must be <= 100">>)
    /\ LimitInRange =>
         ~(Rejected /\ Outcome.message[1] \in {"limit must be >= 1", "limit must be <= 100"})

\* limit=101 rejected on Path
LimitRuleWitness ==
  /\ Served
  /\ request[1].domain = "path"
  /\ Call.limit = 101
  /\ Outcome = HTTPBadRequest(<<"limit must be <= 100">>)

\* C6: a sort_by outside ['name', 'description'] is rejected with
\* HTTPBadRequest, which names the allowed set once the limit has passed;
\* 'name' and 'description' are never rejected as sort fields.
SortFieldRule ==
  Served =>
    /\ ~SortByAllowed =>
         /\ Rejected
         /\ LimitInRange =>
              Outcome.message = <<"sort_by must be one of", "name", "description">>
    /\ SortByAllowed => ~(Rejected /\ Outcome.message[1] = "sort_by must be one of")

\* sort_by=invalid_field rejected on Path with the allowed set in the message
SortFieldRuleWitness ==
  /\ Served
  /\ request[1].domain = "path"
  /\ Call.sort_by = "invalid_field"
  /\ Rejected
  /\ Outcome.message = <<"sort_by must be one of", "name", "description">>

\* C7: a page is returned only for order 'asc' or 'desc'; any other order,
\* 'ASC' and 'upward' included, is rejected with HTTPBadRequest, which is the
\* order message once limit and sort field have passed.
OrderRule ==
  Served =>
    /\ IsPage(Outcome) => OrderAllowed
    /\ ~OrderAllowed =>
         /\ Rejected
         /\ (LimitInRange /\ SortByAllowed) =>
              Outcome.message = <<"order must be 'asc' or 'desc'">>
    /\ OrderAllowed => ~(Rejected /\ Outcome.message[1] = "order must be 'asc' or 'desc'")

\* order=ASC rejected on Path
OrderRuleWitness ==
  /\ Served
  /\ request[1].domain = "path"
  /\ Call.order = "ASC"
  /\ Outcome = HTTPBadRequest(<<"order must be 'asc' or 'desc'">>)

\* C8: an after_id that is present and not a well-formed identifier is
\* rejected with HTTPBadRequest, which is the cursor message once the other
\* rules have passed; an absent after_id is never rejected as a cursor and
\* its page starts at the first matching document.
CursorRule ==
  Served =>
    /\ (Call.after_id # None /\ ~CursorWellFormed) =>
         /\ Rejected
         /\ (LimitInRange /\ SortByAllowed /\ OrderAllowed) =>
              Outcome.message = <<"after_id must be a valid MongoDB ObjectId">>
    /\ Call.after_id = None =>
         /\ ~(Rejected /\ Outcome.message[1] = "after_id must be a valid MongoDB ObjectId")
         /\ IsPage(Outcome) =>
              \A m \in Matching \ ItemsOf(Page.items) :
                \A i \in 1..Len(Page.items) : ItemBefore(Page.items[i], m)

\* after_id=invalid rejected on Resource
CursorRuleWitness ==
  /\ Served
  /\ request[1].domain = "resource"
  /\ Call.after_id = Some(<<"i", "n", "v", "a", "l", "i", "d">>)
  /\ Outcome = HTTPBadRequest(<<"after_id must be a valid MongoDB ObjectId">>)

(***************************************************************************)
(* Route properties                                                        *)
(***************************************************************************)
QueryString == request[1].args

\* C9: a limit that is supplied and does not parse as an integer is rejected
\* with a client-input error.
UnparsableLimitRejected ==
  (Served /\ QueryString.limit # None /\ ~IsIntLiteral(QueryString.limit[1])) => Rejected

\* C10: the route calls the service once; with no query parameter the call
\* is name=None, after_id=None, limit=10, sort_by='name', order='asc'; a
\* supplied parameter is forwarded as supplied and the others keep the
\* defaults.
RouteForwardsArgs ==
  Served =>
    /\ Len(calls) = 1
    /\ Call.name = QueryString.name
    /\ Call.after_id = QueryString.after_id
    /\ IF QueryString.limit = None THEN Call.limit = 10
       ELSE /\ IsIntLiteral(QueryString.limit[1])
            /\ Call.limit = ParseInt(QueryString.limit[1])
    /\ Call.sort_by = (IF QueryString.sort_by = None THEN "name" ELSE QueryString.sort_by[1])
    /\ Call.order = (IF QueryString.order = None THEN "asc" ELSE QueryString.order[1])

(***************************************************************************)
(* Failures of a list request                                              *)
(***************************************************************************)
\* what the parameter rules say about the call
Validation ==
  validate_params(Call.after_id, Call.limit, Call.sort_by, Call.order,
                  <<"name", "description">>)

\* the operations of the request that query the collection
Queries == SelectSeq(trace, LAMBDA op : op \in {"find_one", "find"})

\* the generic message of the domain's list operation
GenericMessage ==
  IF request[1].domain = "path" THEN <<"Failed to retrieve paths">>
  ELSE <<"Failed to retrieve resources">>

\* C11: a failure of a parameter rule leaves the service as HTTPBadRequest
\* with the message of the rule, whether or not the datastore can be
\* reached, and the reply is a 400 carrying that message; it is never an
\* HTTPInternalServerError.
BadRequestPassesThrough ==
  (Served /\ Validation.kind # "return") =>
    /\ Outcome = Validation
    /\ Outcome.kind = "HTTPBadRequest"
    /\ reply[1] = [status |-> 400, body |-> [error |-> Validation.message]]

\* limit=0 on Resource while the datastore is unreachable
BadRequestPassesThroughWitness ==
  /\ Served
  /\ ~available
  /\ request[1].domain = "resource"
  /\ Call.limit = 0
  /\ Outcome = HTTPBadRequest(<<"limit must be >= 1">>)

\* C12: a list request with valid parameters whose query raises ends in
\* HTTPInternalServerError with exactly the generic message of the domain,
\* the cause is no part of it, and the collection was queried once.
QueryFailureIsGeneric ==
  (Served /\ ~available /\ Validation.kind = "return") =>
    /\ Outcome = HTTPInternalServerError(GenericMessage)
    /\ \A i \in 1..Len(Outcome.message) : Outcome.message[i] # CONNECTION_REFUSED
    /\ reply[1] = [status |-> 500, body |-> [error |-> GenericMessage]]
    /\ Len(Queries) = 1

\* a Path request with a cursor fails at the lookup of the cursor's document
QueryFailureIsGenericWitness ==
  /\ Served
  /\ ~available
  /\ request[1].domain = "path"
  /\ Call.after_id # None
  /\ Outcome = HTTPInternalServerError(<<"Failed to retrieve paths">>)
  /\ Queries = <<"find_one">>

\* C20: a list request that ends in HTTPBadRequest has queried the
\* collection not at all: the handle was obtained and nothing was run on it.
RejectedBeforeQuery ==
  (Served /\ Rejected) =>
    /\ Queries = <<>>
    /\ trace[Len(trace)] = "get_collection"

\* an unknown sort field on Path, rejected with the datastore reachable
RejectedBeforeQueryWitness ==
  /\ Served
  /\ available
  /\ request[1].domain = "path"
  /\ Call.after_id # None
  /\ Call.sort_by = "invalid_field"
  /\ Rejected
  /\ Queries = <<>>

(***************************************************************************)
(* Scrolls over a collection that changes                                  *)
(***************************************************************************)
\* the reply is 200 and its body is {items, limit, has_more, next_cursor} with
\* at most limit items and a cursor exactly when there is more
WellFormedPage ==
  /\ IsPage(Outcome)
  /\ reply[1].status = 200
  /\ reply[1].body = Page
  /\ DOMAIN Page = {"items", "limit", "has_more", "next_cursor"}
  /\ Page.limit = Call.limit
  /\ Len(Page.items) <= Call.limit
  /\ Page.has_more \in BOOLEAN
  /\ (Page.next_cursor = None) <=> ~Page.has_more

\* the cursor of the request names no document of the collection as read
CursorIsStale ==
  /\ Call.after_id # None
  /\ ResumePoint(history.read, Call.after_id) = {}

\* the items returned before the last page of the scroll
SeenBefore == ItemsOf(Flatten(SubSeq(scroll.pages, 1, Len(scroll.pages) - 1)))

\* C13: a list request whose cursor is a well-formed identifier of a document
\* the collection no longer holds is answered with a well-formed page.
StaleCursorServed ==
  (Served /\ CursorIsStale) => WellFormedPage

\* the document a Resource page ended with was deleted before the cursor
\* was followed
StaleCursorServedWitness ==
  /\ Served
  /\ request[1].domain = "resource"
  /\ CursorIsStale
  /\ Len(scroll.pages) >= 2
  /\ \E item \in SeenBefore : Call.after_id = Some(item._id)
  /\ IsPage(Outcome)

\* how often a document has been returned in the scroll
TimesReturned(d) == Cardinality({i \in 1..Len(Returned) : Returned[i] = ToItem(d)})

\* C14: at the end of a scroll during which other clients inserted and deleted
\* documents, every matching document that no write touched has been returned
\* exactly once.
UnchangedReturnedOnce ==
  scroll.state = "done" =>
    \A d \in history.unchanged : NameFilter(d, Call.name) => TimesReturned(d) = 1

\* C19: a cursor followed under another sort field or direction than the one
\* it was issued under is answered with a well-formed page.
ResortedScrollServed ==
  scroll.state = "resorted" => WellFormedPage

\* the page fetched under the other sort specification repeats a document
ResortedScrollServedWitness ==
  /\ scroll.state = "resorted"
  /\ request[1].domain = "resource"
  /\ IsPage(Outcome)
  /\ Len(scroll.pages) >= 2
  /\ ItemsOf(Page.items) \cap SeenBefore # {}

(***************************************************************************)
(* The name filter                                                         *)
(***************************************************************************)
\* str.lower() on a text
LowerText(s) == [i \in 1..Len(s) |-> Lower(s[i])]

\* part occurs in text, letter case aside
ContainsIgnoreCase(text, part) == IsSubstring(LowerText(part), LowerText(text))

Operation == request[1].operation

\* what the request got from the datastore
Read == history.read

\* C16: fetching one document by id ends in one of three ways, by what the
\* datastore gave: the stored document; HTTPNotFound with the requested id in
\* its message when it gave None; HTTPInternalServerError when it raised.
SingleDocumentOutcomes ==
  (Served /\ Operation = "get" /\ authorized) =>
    /\ (Read.kind = "return" /\ Read.value # None) =>
         /\ Outcome = [kind |-> "response", status |-> 200, body |-> Read.value[1]]
         /\ reply[1].status = 200
    /\ (Read.kind = "return" /\ Read.value = None) =>
         /\ Outcome.kind = "HTTPNotFound"
         /\ IsSubstring(request[1].args.id, Outcome.message)
         /\ reply[1].status = 404
    /\ Read.kind # "return" =>
         /\ Outcome.kind = "HTTPInternalServerError"
         /\ reply[1].status = 500

\* a Path id that no document has: HTTPNotFound naming it
SingleDocumentOutcomesWitness ==
  /\ Served
  /\ Operation = "get"
  /\ request[1].domain = "path"
  /\ authorized
  /\ request[1].args.id = ObjectIdStr(OID(MaxDocs + 1))
  /\ Read = Return(None)
  /\ Outcome.kind = "HTTPNotFound"

\* C17: every route creates the token first; when that fails with
\* HTTPUnauthorized the reply is 401 with an 'error' field, no breadcrumb is
\* built and no service operation is called.
UnauthorizedStopsRoute ==
  Served =>
    /\ trace # <<>>
    /\ trace[1] = "create_flask_token"
    /\ ~authorized =>
         /\ reply[1].status = 401
         /\ "error" \in DOMAIN reply[1].body
         /\ trace = <<"create_flask_token">>
         /\ calls = <<>>

\* POST /api/curriculum with a token that is not accepted
UnauthorizedStopsRouteWitness ==
  /\ Served
  /\ Operation = "create"
  /\ request[1].domain = "curriculum"
  /\ request[1].args.json # None
  /\ ~authorized
  /\ reply[1].status = 401

\* the restricted fields the request body carries
Offending ==
  IF request[1].args.json = None THEN {}
  ELSE DOMAIN request[1].args.json[1] \cap {"_id", "created", "saved"}

\* C18: an update of a rating whose body carries '_id', 'created' or 'saved'
\* ends in HTTPForbidden whose message names a restricted field of the body,
\* whatever else the body carries and whether or not the rating exists.
RestrictedFieldsForbidden ==
  (Served /\ Operation = "update" /\ authorized /\ available /\ Offending # {}) =>
    /\ Outcome.kind = "HTTPForbidden"
    /\ \E i \in 1..Len(Outcome.message) : Outcome.message[i] \in Offending
    /\ reply[1].status = 403

\* a body with 'saved' and 'name' for a rating the datastore does not hold
RestrictedFieldsForbiddenWitness ==
  /\ Served
  /\ Operation = "update"
  /\ authorized
  /\ available
  /\ Offending = {"saved"}
  /\ "name" \in DOMAIN request[1].args.json[1]
  /\ Read = Return(None)
  /\ Outcome.kind = "HTTPForbidden"

(***************************************************************************)
(* Order of the parameter rules                                            *)
(***************************************************************************)
\* the rules the call breaks, in the order limit, sort field, sort order,
\* cursor, each named by the head of its message
Failures ==
  (IF Call.limit < 1 THEN <<"limit must be >= 1">>
   ELSE IF Call.limit > 100 THEN <<"limit must be <= 100">> ELSE <<>>)
  \o (IF SortByAllowed THEN <<>> ELSE <<"sort_by must be one of">>)
  \o (IF OrderAllowed THEN <<>> ELSE <<"order must be 'asc' or 'desc'">>)
  \o (IF Call.after_id = None \/ CursorWellFormed THEN <<>>
      ELSE <<"after_id must be a valid MongoDB ObjectId">>)

\* C21: the rules are checked in the order limit, sort field, sort order,
\* cursor and the first one broken is the one reported: a request breaking
\* several rules is rejected with the message of the earliest of them, and a
\* request breaking none is not rejected.
FirstFailureWins ==
  Served =>
    /\ Failures = <<>> => ~Rejected
    /\ Failures # <<>> => Rejected /\ Outcome.message[1] = Failures[1]

\* limit=0 with sort_by=invalid_field on Resource reports the limit
FirstFailureWinsWitness ==
  /\ Served
  /\ request[1].domain = "resource"
  /\ Call.limit = 0
  /\ Call.sort_by = "invalid_field"
  /\ Len(Failures) >= 2
  /\ Outcome = HTTPBadRequest(<<"limit must be >= 1">>)

(***************************************************************************)
(* Order of the items                                                      *)
(***************************************************************************)
\* the items of seq are strictly increasing in (sort field in the requested
\* direction, identifier ascending)
InTotalOrder(seq) ==
  \A i, j \in 1..Len(seq) : i < j => ItemBefore(seq[i], seq[j])

\* C22: the items of every page, and the pages of a scroll laid end to end,
\* are in the total order (sort field in the requested direction, then
\* identifier ascending); the identifier breaks ties in ascending order for
\* 'asc' and for 'desc' alike.
PagesInTotalOrder ==
  /\ (Served /\ IsPage(Outcome)) => InTotalOrder(Page.items)
  /\ scroll.state \in {"open", "done"} => InTotalOrder(Returned)

\* a descending Path scroll whose first page holds two documents of equal
\* value and whose second page starts with a third of the same value
PagesInTotalOrderWitness ==
  /\ scroll.state \in {"open", "done"}
  /\ request[1].domain = "path"
  /\ Call.order = "desc"
  /\ Len(scroll.pages) = 2
  /\ Len(scroll.pages[1]) = 2
  /\ scroll.pages[2] # <<>>
  /\ scroll.pages[1][1][Call.sort_by] = scroll.pages[1][2][Call.sort_by]
  /\ scroll.pages[1][2][Call.sort_by] = scroll.pages[2][1][Call.sort_by]
  /\ StrLess(scroll.pages[1][1]._id, scroll.pages[1][2]._id)
  /\ StrLess(scroll.pages[1][2]._id, scroll.pages[2][1]._id)

(***************************************************************************)
(* Resume point                                                            *)
(***************************************************************************)
\* the identifier the cursor names, as the datastore prints it
CursorId == ObjectIdStr(ObjectId(Call.after_id[1]))

\* C23: every item of a page fetched with a cursor lies strictly after the
\* resume point in the total order, and the document the cursor names is
\* never in the page.
AfterResumePoint ==
  (Served /\ IsPage(Outcome) /\ Call.after_id # None) =>
    \A i \in 1..Len(Page.items) :
       /\ \A r \in ResumeItems : ItemBefore(r, Page.items[i])
       /\ Page.items[i]._id # CursorId

\* a Path page fetched after a document of the collection starts with a
\* document of the same sort value and a greater identifier
AfterResumePointWitness ==
  /\ Served
  /\ IsPage(Outcome)
  /\ request[1].domain = "path"
  /\ Call.after_id # None
  /\ Page.items # <<>>
  /\ \E r \in ResumeItems :
       /\ r._id = CursorId
       /\ r[Call.sort_by] = Page.items[1][Call.sort_by]
       /\ StrLess(r._id, Page.items[1]._id)

\* the read routes of Path and Resource over collections that other
\* clients write to
SpecReads == InitRequests /\ [][NextReads]_vars

\* list requests repeated by a client that keeps an earlier response, over
\* collections that other clients delete from
SpecStateless == InitRequests /\ [][NextStateless]_vars

(***************************************************************************)
(* Statelessness                                                           *)
(***************************************************************************)
\* the client kept a response to the request now served again
Repeated ==
  /\ Served
  /\ previous # None
  /\ previous[1].request = request[1]

ReadsLeaveCollections ==
  [][(request' # None /\ request' # request) => db' = db]_vars

\* a single-document request for a Path document that another client had
\* deleted is refused, and the collection is still the one the writer left
ReadsLeaveCollectionsWitness ==
  /\ Served
  /\ Operation = "get"
  /\ request[1].domain = "path"
  /\ history.writes > 0
  /\ db # FixtureDatastore
  /\ Outcome.kind = "HTTPNotFound"
  /\ ObjectIdIsValid(request[1].args.id)

(***************************************************************************)
(* Create routes                                                           *)
(***************************************************************************)
\* the service operations of the domain's create route
CreateOperation ==
  IF request[1].domain = "curriculum" THEN "CurriculumService.create_curriculum"
                                      ELSE "RatingService.create_rating"

GetOperation ==
  IF request[1].domain = "curriculum" THEN "CurriculumService.get_curriculum"
                                      ELSE "RatingService.get_rating"

\* C26: a create route with an accepted token calls the service's create
\* first and once; when create raises, get is not called and the exception
\* is the outcome; when create returns an id, get is called once, after it,
\* with that id, and the reply is 201 with the document get returned.
CreateThenReadBack ==
  (Served /\ Operation = "create" /\ authorized) =>
    /\ calls # <<>>
    /\ calls[1].operation = CreateOperation
    /\ \A i \in 2..Len(calls) : calls[i].operation # CreateOperation
    /\ Read.create.kind # "return" => Len(calls) = 1 /\ Outcome = Read.create
    /\ Read.create.kind = "return" =>
         /\ Len(calls) = 2
         /\ calls[2] = [operation |-> GetOperation, id |-> Read.create.value]
         /\ Read.get.kind = "return" =>
              reply[1] = [status |-> 201, body |-> Read.get.value]
         /\ Read.get.kind # "return" => Outcome = Read.get

\* POST /api/curriculum: create returned 456, get was called with 456 and
\* the reply is 201 with get's document
CreateThenReadBackWitness ==
  /\ Served
  /\ Operation = "create"
  /\ request[1].domain = "curriculum"
  /\ authorized
  /\ Read.create = Return(<<"4", "5", "6">>)
  /\ Len(calls) = 2
  /\ calls[2].id = <<"4", "5", "6">>
  /\ reply[1].status = 201
  /\ reply[1].body = Read.get.value

\* the JSON object of the request, empty when there is none
Body == IF request[1].args.json = None THEN <<>> ELSE request[1].args.json[1]

\* C27: the document create_rating passes to the datastore has no '_id',
\* carries 'created' and 'saved', and holds every other field of the request
\* body with the client's value.
CreatedDocument ==
  (Served /\ Operation = "create" /\ request[1].domain = "rating" /\ authorized) =>
    /\ Len(calls[1].datastore) = 1
    /\ calls[1].datastore[1].operation = "create_document"
    /\ calls[1].datastore[1].collection = "Rating"
    /\ "_id" \notin DOMAIN calls[1].datastore[1].document
    /\ {"created", "saved"} \subseteq DOMAIN calls[1].datastore[1].document
    /\ \A k \in DOMAIN Body \ {"_id", "created", "saved"} :
         /\ k \in DOMAIN calls[1].datastore[1].document
         /\ calls[1].datastore[1].document[k] = Body[k]

\* POST /api/rating with '_id' and 'name' in the body: the document created
\* has the name and no '_id'
CreatedDocumentWitness ==
  /\ Served
  /\ Operation = "create"
  /\ request[1].domain = "rating"
  /\ authorized
  /\ {"_id", "name"} \subseteq DOMAIN Body
  /\ DOMAIN calls[1].datastore[1].document = {"name", "created", "saved"}
  /\ reply[1].status = 201

(***************************************************************************)
(* Permission check                                                        *)
(***************************************************************************)
\* obtaining the datastore handle or a collection, and reading documents
DatastoreOperations ==
  {"MongoIO.get_instance", "get_collection", "get_document", "find_one", "find"}

\* where in the trace the permission was checked
PermissionChecks == {i \in 1..Len(trace) : trace[i] = "_check_permission"}

\* C28: a list or single-document request of Path or Resource whose token
\* was accepted checks the 'read' permission once, before it obtains the
\* datastore handle and before it reads any document; the check refuses no
\* request.
PermissionBeforeDatastore ==
  (/\ Served
   /\ authorized
   /\ Operation \in {"list", "get"}
   /\ request[1].domain \in {"path", "resource"}) =>
    /\ Cardinality(PermissionChecks) = 1
    /\ \A i \in 1..Len(trace) :
         trace[i] \in DatastoreOperations => \A p \in PermissionChecks : p < i
    /\ \E i \in 1..Len(trace) : trace[i] = "MongoIO.get_instance"
    /\ Outcome.kind # "HTTPForbidden"
    /\ reply[1].status # 403

\* GET /api/resource/<id> answered with the document: the permission check
\* is the first operation of the service and get_document the last
PermissionBeforeDatastoreWitness ==
  /\ Served
  /\ authorized
  /\ Operation = "get"
  /\ request[1].domain = "resource"
  /\ reply[1].status = 200
  /\ trace[Len(ROUTE_PROLOGUE) + 1] = "_check_permission"
  /\ trace[Len(trace)] = "get_document"

\* well-formed and malformed list requests against a datastore that comes
\* and goes, and list requests in which a statement of the try block raises
SpecOutcomes == InitRequests /\ [][NextOutcomes]_vars

(***************************************************************************)
(* Outcomes of the list operations                                         *)
(***************************************************************************)
\* the statement of the try block that raised, and what it raised
Raised == history.raised[1]

\* C29: get_paths and get_resources end in a page, in HTTPBadRequest or in
\* HTTPInternalServerError with the generic message of the operation, and in
\* nothing else.  An HTTPBadRequest raised inside the try block leaves
\* unchanged; any other exception raised inside it, HTTPForbidden from the
\* permission check and a failure to obtain the datastore or configuration
\* handle included, leaves as HTTPInternalServerError with the generic
\* message.
ListOutcomes ==
  (Served /\ Operation = "list") =>
    /\ Outcome.kind \in {"response", "HTTPBadRequest", "HTTPInternalServerError"}
    /\ Outcome.kind = "HTTPInternalServerError" => Outcome.message = GenericMessage
    /\ history.raised # None =>
         IF Raised.exception.kind = "HTTPBadRequest"
           THEN Outcome = Raised.exception
           ELSE Outcome = HTTPInternalServerError(GenericMessage)
    /\ history.raised = None =>
         /\ Rejected <=> Failures # <<>>
         /\ IsPage(Outcome) <=> (Failures = <<>> /\ available)

\* the permission check of get_paths raises HTTPForbidden: the reply is 500
\* with 'Failed to retrieve paths'
ListOutcomesWitness ==
  /\ Served
  /\ Operation = "list"
  /\ request[1].domain = "path"
  /\ history.raised # None
  /\ Raised.operation = "_check_permission"
  /\ Raised.exception.kind = "HTTPForbidden"
  /\ trace[Len(trace)] = "_check_permission"
  /\ Outcome = HTTPInternalServerError(<<"Failed to retrieve paths">>)
  /\ reply[1].status = 500

\* the server under requests and signals; a handler that has been entered
\* goes on, and mongo.disconnect() returns or raises
SpecShutdown == InitRequests /\ [][NextShutdown]_vars /\ WF_vars(handle_exit)

(***************************************************************************)
(* Shutdown                                                                *)
(***************************************************************************)
\* the handler whose sys.exit ended the process
ExitedBy == process.exited_by[1]

ErrorLogged ==
  \E i \in 1..Len(process.log) : process.log[i] = "Error disconnecting from MongoDB"

\* what holds of the process at every moment of a shutdown
ShutdownSafe ==
  /\ process.state = "serving" => process.exit_code = None
  /\ \A i \in 1..Len(process.handlers) :
       /\ process.handlers[i].disconnects <= 1
       /\ process.handlers[i].disconnects = 1 => process.mongo # None
  /\ process.state = "exited" =>
       /\ process.exit_code = Some(0)
       /\ process.handlers = <<>>
       /\ ExitedBy.disconnects <= 1
       /\ ExitedBy.raised => ErrorLogged

\* C30: once SIGTERM or SIGINT has entered the handler the process ends,
\* and it ends with exit code 0; a handler calls mongo.disconnect() at most
\* once, and only with a datastore handle; when the call raises, the error
\* is logged and the exit code is still 0.
ShutdownExitsZero ==
  /\ []ShutdownSafe
  /\ (process.handlers # <<>>) ~> (process.state = "exited")

\* a SIGTERM whose disconnect raised: the error is logged, the process has
\* ended with code 0
ShutdownExitsZeroWitness ==
  /\ process.state = "exited"
  /\ process.exit_code = Some(0)
  /\ ExitedBy.signum = "SIGTERM"
  /\ ExitedBy.raised
  /\ ExitedBy.disconnects = 1
  /\ ErrorLogged

====
